---- MODULE Spec2Model ----
(***************************************************************************)
(* bin/import_gram_vaani.py: the GramVaani importer.                       *)
(*                                                                         *)
(* Two specifications.                                                     *)
(*   Spec      the program: main() run (and re-run) against one target     *)
(*             directory: download, convert, create, with the files on     *)
(*             disk kept from one run to the next.                         *)
(*   UnitSpec  the functions of GramVaaniDataSets applied to drawn inputs: *)
(*             _is_row_invalid on one row's values, the shuffle,           *)
(*             _calculate_data_set_sizes and the three .loc slices.        *)
(***************************************************************************)
EXTENDS Integers, Sequences, FiniteSets, TLC

\* ------------------------------------------------------------------ bounds
\* rows of the manifest main() is run on
MaxRows == 2
\* runs of main() against the same target directory
MaxRuns == 3
\* rows of a drawn raw table (UnitSpec)
MaxTableRows == 2
\* every size 0..MaxN of a table of acceptable rows is drawn (UnitSpec)
MaxN == 24
\* tables up to this length are shuffled into every permutation
MaxPermLen == 3

\* ------------------------------------------------------- program constants
MAX_SECS == 10
SAMPLE_RATE == 16000
\* DEV_PERCENTAGE = 0.10 and TRAIN_PERCENTAGE = 0.80, in percent
DEV_PERCENTAGE == 10
TRAIN_PERCENTAGE == 80

VARIABLES
    manifest,     \* GramVaaniCSV.data: the rows of the csv, in file order
    run,          \* which run of main() this is
    pc,           \* where main() (Spec) or create (UnitSpec) stands
    exc,          \* the exception that ended main(), "none" while it runs
    stages,       \* the stages main() has entered in this run, in order
    extFail,      \* an external collaborator (network, sox) failed in this run
    mp3,          \* <directory>/mp3: file name -> "absent" | "partial" | "complete"
    wav,          \* <directory>/wav: stem -> "absent" | "partial" | "complete"
    w,            \* download: each row's position inside _download
    todo,         \* convert: the globbed mp3 files the loop has not reached
    retrievals,   \* urlretrieve calls issued in this run
    transcodes,   \* Transformer.build calls issued in this run
    priorFetch,   \* download() returned in an earlier run
    priorConvert, \* convert() returned in an earlier run
    mp3AtStart,   \* mp3 as this run found it
    wavAtStart,   \* wav as this run found it
    raw,          \* GramVaaniDataSets.raw: label -> row
    valid,        \* GramVaaniDataSets.valid: label -> row
    soxi,         \* what `soxi -s` reports: wav_filename -> frames
    sizes,        \* (train_size, dev_size, test_size) of create
    train,        \* create's local `train`: label -> row
    dev,          \* create's local `dev`
    test          \* create's local `test`

vars ==
    <<manifest, run, pc, exc, stages, extFail, mp3, wav, w, todo, retrievals,
      transcodes, priorFetch, priorConvert, mp3AtStart, wavAtStart, raw, valid,
      soxi, sizes, train, dev, test>>

dataVars == <<raw, valid, soxi, sizes, train, dev, test>>

\* ------------------------------------------------------------ file names
\* A file name is its stem and its extension; a url is a directory part and
\* a file name.
MkName(stem, ext) == [stem |-> stem, ext |-> ext]
MkUrl(dir, name) == [dir |-> dir, name |-> name]

\* os.path.basename(audio_url): the last component of the url
basename(url) == url.name

\* os.path.splitext(name)[0] + ".wav", kept as the stem the wav is stored under
wav_of(name) == name.stem

\* a path.exists that never finds the file
path_exists_never(dir, f) == FALSE

\* path.exists(mp3_filename), path.exists(wav_filename): the file is there,
\* whole or not
path_exists(dir, f) == dir[f] # "absent"

\* the urls manifests are drawn from: two with the same basename in different
\* remote directories, one more mp3, and one that is not an mp3
Urls ==
    { MkUrl("a", MkName("x", ".mp3")),
      MkUrl("b", MkName("x", ".mp3")),
      MkUrl("a", MkName("y", ".mp3")),
      MkUrl("a", MkName("z", ".ogg")) }

Names == { basename(u) : u \in Urls }
Stems == { wav_of(n) : n \in Names }

CsvRows == [audio_url : Urls, transcript : {<<"h", "i">>}, audio_length : {2}]

SeqsUpTo(S, n) == UNION { [1..k -> S] : k \in 0..n }

Manifests == SeqsUpTo(CsvRows, MaxRows) \ {<<>>}

\* an empty DataFrame
EmptyFrame == <<>>

Entered(stage) == stage \in { stages[i] : i \in DOMAIN stages }

\* ------------------------------------------------------------------ Spec
Init ==
    /\ manifest \in Manifests
    /\ run = 1
    /\ pc = "download"
    /\ exc = "none"
    /\ stages = <<"Loader">>
    /\ extFail = FALSE
    /\ mp3 = [f \in Names |-> "absent"]
    /\ wav = [s \in Stems |-> "absent"]
    /\ w = [i \in DOMAIN manifest |-> "idle"]
    /\ todo = {}
    /\ retrievals = 0
    /\ transcodes = 0
    /\ priorFetch = FALSE
    /\ priorConvert = FALSE
    /\ mp3AtStart = [f \in Names |-> "absent"]
    /\ wavAtStart = [s \in Stems |-> "absent"]
    /\ raw = EmptyFrame
    /\ valid = EmptyFrame
    /\ soxi = <<>>
    /\ sizes = <<0, 0, 0>>
    /\ train = EmptyFrame
    /\ dev = EmptyFrame
    /\ test = EmptyFrame

\* main() ends with an exception
Raise(e, external) ==
    /\ pc' = "crashed"
    /\ exc' = e
    /\ extFail' = (extFail \/ external)

\* download(): _pre_download, then the parallel apply of _download starts
DownloadBegin ==
    /\ pc = "download"
    /\ pc' = "downloading"
    /\ stages' = Append(stages, "Fetcher")
    /\ w' = [i \in DOMAIN manifest |-> "idle"]
    /\ UNCHANGED <<manifest, run, exc, extFail, mp3, wav, todo, retrievals,
                   transcodes, priorFetch, priorConvert, mp3AtStart, wavAtStart>>
    /\ UNCHANGED dataVars

\* _download, the test `if not path.exists(mp3_filename)` of row i
DownloadCheck(i) ==
    /\ pc = "downloading"
    /\ w[i] = "idle"
    /\ w' = [w EXCEPT ![i] =
                IF path_exists(mp3, basename(manifest[i].audio_url))
                THEN "done" ELSE "missing"]
    /\ UNCHANGED <<manifest, run, pc, exc, stages, extFail, mp3, wav, todo,
                   retrievals, transcodes, priorFetch, priorConvert,
                   mp3AtStart, wavAtStart>>
    /\ UNCHANGED dataVars

\* urlretrieve(audio_url, mp3_filename) of row i opens the url and then the
\* target file for writing: the request either fails, or the file now exists,
\* truncated, under its final name
DownloadOpen(i) ==
    /\ pc = "downloading"
    /\ w[i] = "missing"
    /\ retrievals' = retrievals + 1
    /\ \/ /\ mp3' = [mp3 EXCEPT ![basename(manifest[i].audio_url)] = "partial"]
          /\ w' = [w EXCEPT ![i] = "writing"]
          /\ UNCHANGED <<pc, exc, extFail>>
       \/ /\ Raise("URLError", TRUE)
          /\ UNCHANGED <<mp3, w>>
    /\ UNCHANGED <<manifest, run, stages, wav, todo, transcodes, priorFetch,
                   priorConvert, mp3AtStart, wavAtStart>>
    /\ UNCHANGED dataVars

\* urlretrieve of row i copies the body block by block: it reaches the end,
\* or the connection breaks and what was written stays on disk
DownloadWrite(i) ==
    /\ pc = "downloading"
    /\ w[i] = "writing"
    /\ \/ /\ mp3' = [mp3 EXCEPT ![basename(manifest[i].audio_url)] = "complete"]
          /\ w' = [w EXCEPT ![i] = "done"]
          /\ UNCHANGED <<pc, exc, extFail>>
       \/ /\ Raise("ContentTooShortError", TRUE)
          /\ UNCHANGED <<mp3, w>>
    /\ UNCHANGED <<manifest, run, stages, wav, todo, retrievals, transcodes,
                   priorFetch, priorConvert, mp3AtStart, wavAtStart>>
    /\ UNCHANGED dataVars

\* download() returns mp3_directory once every row has been applied
DownloadReturn ==
    /\ pc = "downloading"
    /\ \A i \in DOMAIN manifest : w[i] = "done"
    /\ pc' = "convert"
    /\ UNCHANGED <<manifest, run, exc, stages, extFail, mp3, wav, w, todo,
                   retrievals, transcodes, priorFetch, priorConvert,
                   mp3AtStart, wavAtStart>>
    /\ UNCHANGED dataVars

\* convert(): _pre_convert, then the loop over mp3_directory.glob('**/*.mp3')
ConvertBegin ==
    /\ pc = "convert"
    /\ pc' = "converting"
    /\ stages' = Append(stages, "Transcoder")
    /\ todo' = { f \in Names : mp3[f] # "absent" /\ f.ext = ".mp3" }
    /\ UNCHANGED <<manifest, run, exc, extFail, mp3, wav, w, retrievals,
                   transcodes, priorFetch, priorConvert, mp3AtStart, wavAtStart>>
    /\ UNCHANGED dataVars

\* one turn of the loop: skip when the wav exists, else Transformer.build,
\* which writes the wav or raises (leaving no wav, or a broken one)
ConvertFile(f) ==
    /\ pc = "converting"
    /\ f \in todo
    /\ todo' = todo \ {f}
    /\ IF path_exists(wav, wav_of(f))
       THEN UNCHANGED <<wav, transcodes, pc, exc, extFail>>
       ELSE /\ transcodes' = transcodes + 1
            /\ \/ /\ wav' = [wav EXCEPT ![wav_of(f)] = "complete"]
                  /\ UNCHANGED <<pc, exc, extFail>>
               \/ /\ \E left \in {"absent", "partial"} :
                         wav' = [wav EXCEPT ![wav_of(f)] = left]
                  /\ Raise("SoxError", TRUE)
    /\ UNCHANGED <<manifest, run, stages, mp3, w, retrievals, priorFetch,
                   priorConvert, mp3AtStart, wavAtStart>>
    /\ UNCHANGED dataVars

\* convert() returns wav_directory
ConvertReturn ==
    /\ pc = "converting"
    /\ todo = {}
    /\ pc' = "create"
    /\ UNCHANGED <<manifest, run, exc, stages, extFail, mp3, wav, w, todo,
                   retrievals, transcodes, priorFetch, priorConvert,
                   mp3AtStart, wavAtStart>>
    /\ UNCHANGED dataVars

\* create(), its first statement: _convert_csv_data_to_raw_data applies
\* _convert_csv_data_to_raw_data_impl to every row; path.getsize raises when
\* the row's wav is not there; validate_label returns the label or None
CreateRaw ==
    /\ pc = "create"
    /\ stages' = Append(stages, "Validator&Splitter")
    /\ IF \E i \in DOMAIN manifest :
              wav[wav_of(basename(manifest[i].audio_url))] = "absent"
       THEN /\ Raise("FileNotFoundError", FALSE)
            /\ UNCHANGED raw
       ELSE /\ \E label \in [DOMAIN manifest -> BOOLEAN] :
                 raw' = [k \in 0..(Len(manifest) - 1) |->
                           [wav_filename |-> wav_of(basename(manifest[k + 1].audio_url)),
                            wav_filesize |-> wav[wav_of(basename(manifest[k + 1].audio_url))],
                            transcript |-> IF label[k + 1]
                                           THEN manifest[k + 1].transcript
                                           ELSE <<>>]]
            /\ pc' = "filter"
            /\ UNCHANGED <<exc, extFail>>
    /\ UNCHANGED <<manifest, run, mp3, wav, w, todo, retrievals, transcodes,
                   priorFetch, priorConvert, mp3AtStart, wavAtStart, valid,
                   soxi, sizes, train, dev, test>>

\* create(), its second statement: _is_row_invalid is handed the three
\* columns of raw, and `transcript.strip()` on a column raises
\* AttributeError; self.valid keeps the empty frame of __init__
CreateFilter ==
    /\ pc = "filter"
    /\ Raise("AttributeError", FALSE)
    /\ UNCHANGED <<manifest, run, stages, mp3, wav, w, todo, retrievals,
                   transcodes, priorFetch, priorConvert, mp3AtStart, wavAtStart>>
    /\ UNCHANGED dataVars

\* main() is run again on the same csv and directory
Rerun ==
    /\ pc = "crashed"
    /\ run < MaxRuns
    /\ run' = run + 1
    /\ pc' = "download"
    /\ exc' = "none"
    /\ stages' = <<"Loader">>
    /\ extFail' = FALSE
    /\ w' = [i \in DOMAIN manifest |-> "idle"]
    /\ todo' = {}
    /\ retrievals' = 0
    /\ transcodes' = 0
    /\ priorFetch' = (priorFetch \/ Entered("Transcoder"))
    /\ priorConvert' = (priorConvert \/ Entered("Validator&Splitter"))
    /\ mp3AtStart' = mp3
    /\ wavAtStart' = wav
    /\ raw' = EmptyFrame
    /\ valid' = EmptyFrame
    /\ UNCHANGED <<manifest, mp3, wav, soxi, sizes, train, dev, test>>

Next ==
    \/ DownloadBegin
    \/ \E i \in DOMAIN manifest : DownloadCheck(i)
    \/ \E i \in DOMAIN manifest : DownloadOpen(i)
    \/ \E i \in DOMAIN manifest : DownloadWrite(i)
    \/ DownloadReturn
    \/ ConvertBegin
    \/ \E f \in Names : ConvertFile(f)
    \/ ConvertReturn
    \/ CreateRaw
    \/ CreateFilter
    \/ Rerun

Spec == Init /\ [][Next]_vars

\* ------------------------------------------------- GramVaaniDataSets, by unit
\* A transcript is a sequence of characters.
Rep(c, n) == [i \in 1..n |-> c]

IsSpace(c) == c = " "

\* str.strip(): the transcript without its leading and trailing whitespace
RECURSIVE LStrip(_)
LStrip(t) ==
    IF t = <<>> THEN <<>>
    ELSE IF IsSpace(Head(t)) THEN LStrip(Tail(t)) ELSE t

RECURSIVE RStrip(_)
RStrip(t) ==
    IF t = <<>> THEN <<>>
    ELSE IF IsSpace(t[Len(t)]) THEN RStrip(SubSeq(t, 1, Len(t) - 1)) ELSE t

strip(t) == RStrip(LStrip(t))

\* The frame counts below 400000 at which the double-precision chain
\* frames/16000*1000/10/2 ends just under the whole number frames/320
\* (64320/16000*1000/10/2 is 200.99999999999997): the products and quotients
\* are rounded to 53 bits one after the other.
DoubleRoundsBelow ==
    {64320, 64960, 128640, 129920, 256960, 257280, 259520, 259840, 262080}

\* int(frames/SAMPLE_RATE*1000/10/2), frames < 400000
half_centiseconds(frames) ==
    IF frames \in DoubleRoundsBelow
    THEN (frames * 1000) \div (SAMPLE_RATE * 10 * 2) - 1
    ELSE (frames * 1000) \div (SAMPLE_RATE * 10 * 2)

\* _is_row_invalid on the values of one row; frames is what soxi -s prints
\* for the row's wav (frames/SAMPLE_RATE > MAX_SECS is frames > 160000, the
\* quotient being exact enough at every frame count below 400000)
_is_row_invalid(wav_filename, wav_filesize, transcript) ==
    IF strip(transcript) = <<>>
    THEN TRUE
    ELSE LET frames == soxi[wav_filename]
         IN  IF half_centiseconds(frames) < Len(transcript)
             THEN TRUE
             ELSE IF frames > MAX_SECS * SAMPLE_RATE
                  THEN TRUE
                  ELSE FALSE

\* DataFrame.drop(labels): the frame without the rows of these labels, the
\* other rows keeping their labels
drop(frame, labels) == [l \in (DOMAIN frame) \ labels |-> frame[l]]

\* self.raw.drop(self.raw[<mask>].index) with the mask _is_row_invalid gives
\* row by row
valid_rows(frame) ==
    drop(frame, { l \in DOMAIN frame :
                    _is_row_invalid(frame[l].wav_filename, frame[l].wav_filesize,
                                    frame[l].transcript) })

\* the labels of a frame in ascending order
Ascending(L) ==
    IF L = 0..(Cardinality(L) - 1)
    THEN [i \in 1..Cardinality(L) |-> i - 1]
    ELSE [i \in 1..Cardinality(L) |->
            CHOOSE x \in L : Cardinality({ y \in L : y < x }) = i - 1]

Reversed(s) == [i \in 1..Len(s) |-> s[Len(s) + 1 - i]]

\* the orders sample(frac=1) may put the labels in: every permutation of a
\* short frame, the two extreme ones of a long frame
Orders(L) ==
    IF Cardinality(L) <= MaxPermLen
    THEN { s \in [1..Cardinality(L) -> L] :
             \A i, j \in 1..Cardinality(L) : i # j => s[i] # s[j] }
    ELSE { Ascending(L), Reversed(Ascending(L)) }

\* frame.sample(frac=1).reset_index(drop=True) for one such order: the rows
\* in that order, labelled 0..n-1 anew
reset_index(frame, order) == [k \in 0..(Len(order) - 1) |-> frame[order[k + 1]]]

\* _calculate_data_set_sizes with train_size rounded up instead of down
calculate_data_set_sizes_ceil(frame) ==
    LET total_size == Cardinality(DOMAIN frame)
        dev_size == (total_size * DEV_PERCENTAGE) \div 100
        train_size == (total_size * TRAIN_PERCENTAGE + 99) \div 100
        test_size == total_size - (train_size + dev_size)
    IN  <<train_size, dev_size, test_size>>

\* _calculate_data_set_sizes; math.floor(total_size * 0.10) and
\* math.floor(total_size * 0.80) are the whole quotients below (the doubles
\* agree with them for every total_size below 200000)
_calculate_data_set_sizes(frame) ==
    LET total_size == Cardinality(DOMAIN frame)
        dev_size == (total_size * DEV_PERCENTAGE) \div 100
        train_size == (total_size * TRAIN_PERCENTAGE) \div 100
        test_size == total_size - (train_size + dev_size)
    IN  <<train_size, dev_size, test_size>>

\* frame.loc[first:last]: the rows whose label lies between the two labels,
\* both included
loc(frame, first, last) ==
    [l \in { k \in DOMAIN frame : first <= k /\ k <= last } |-> frame[l]]

\* --- the inputs UnitSpec draws
Hello == <<"h", "e", "l", "l", "o">>

Sample(t, frames) == [transcript |-> t, frames |-> frames]

\* rows A, B and C of the three-row scenario
RowA == Sample(Hello, 32000)
RowB == Sample(<<>>, 32000)
RowC == Sample(Rep("x", 500), 16000)

\* rows at the edges of each test of _is_row_invalid
EdgeSamples ==
    { Sample(<<>>, 170000),
      Sample(<<" ">>, 32000),
      Sample(<<"x">>, 319),
      Sample(<<"x">>, 320),
      Sample(<<"x", "x">>, 640),
      Sample(<<" ", "x", " ">>, 959),
      Sample(<<" ", "x", " ">>, 960),
      Sample(<<"x">>, 160000),
      Sample(<<"x">>, 160001),
      Sample(Rep("x", 201), 64319),
      Sample(Rep("x", 201), 64320),
      Sample(Rep("x", 201), 64640) }

\* the table sizes drawn besides 0..MaxN
LargeSizes == {1000}

Batches ==
    SeqsUpTo(EdgeSamples, MaxTableRows)
        \cup {<<RowA, RowB, RowC>>}
        \cup { Rep(RowA, n) : n \in (0..MaxN) \cup LargeSizes }

\* self.raw for a batch of samples: one row per wav, a 16-bit mono wav of
\* that many frames
raw_of(batch) ==
    [k \in 0..(Len(batch) - 1) |->
        [wav_filename |-> k,
         wav_filesize |-> 44 + 2 * batch[k + 1].frames,
         transcript |-> batch[k + 1].transcript]]

soxi_of(batch) == [k \in 0..(Len(batch) - 1) |-> batch[k + 1].frames]

progVars ==
    <<manifest, run, exc, stages, extFail, mp3, wav, w, todo, retrievals,
      transcodes, priorFetch, priorConvert, mp3AtStart, wavAtStart>>

UnitInit ==
    /\ \E batch \in Batches :
          /\ raw = raw_of(batch)
          /\ soxi = soxi_of(batch)
    /\ pc = "u_raw"
    /\ valid = EmptyFrame
    /\ sizes = <<0, 0, 0>>
    /\ train = EmptyFrame
    /\ dev = EmptyFrame
    /\ test = EmptyFrame
    /\ manifest = <<>>
    /\ run = 1
    /\ exc = "none"
    /\ stages = <<>>
    /\ extFail = FALSE
    /\ mp3 = [f \in Names |-> "absent"]
    /\ wav = [s \in Stems |-> "absent"]
    /\ w = <<>>
    /\ todo = {}
    /\ retrievals = 0
    /\ transcodes = 0
    /\ priorFetch = FALSE
    /\ priorConvert = FALSE
    /\ mp3AtStart = [f \in Names |-> "absent"]
    /\ wavAtStart = [s \in Stems |-> "absent"]

\* create, line 211, with _is_row_invalid applied to each row's values
UnitValidate ==
    /\ pc = "u_raw"
    /\ valid' = valid_rows(raw)
    /\ pc' = "u_valid"
    /\ UNCHANGED <<raw, soxi, sizes, train, dev, test>>
    /\ UNCHANGED progVars

\* create, line 212
UnitShuffle ==
    /\ pc = "u_valid"
    /\ \E order \in Orders(DOMAIN valid) : valid' = reset_index(valid, order)
    /\ pc' = "u_shuffled"
    /\ UNCHANGED <<raw, soxi, sizes, train, dev, test>>
    /\ UNCHANGED progVars

\* create, line 213
UnitSizes ==
    /\ pc = "u_shuffled"
    /\ sizes' = _calculate_data_set_sizes(valid)
    /\ pc' = "u_sized"
    /\ UNCHANGED <<raw, soxi, valid, train, dev, test>>
    /\ UNCHANGED progVars

\* create, line 214
UnitTrain ==
    /\ pc = "u_sized"
    /\ train' = loc(valid, 0, sizes[1])
    /\ pc' = "u_train"
    /\ UNCHANGED <<raw, soxi, valid, sizes, dev, test>>
    /\ UNCHANGED progVars

\* create, line 215
UnitDev ==
    /\ pc = "u_train"
    /\ dev' = loc(valid, sizes[1], sizes[1] + sizes[2])
    /\ pc' = "u_dev"
    /\ UNCHANGED <<raw, soxi, valid, sizes, train, test>>
    /\ UNCHANGED progVars

\* create, line 216
UnitTest ==
    /\ pc = "u_dev"
    /\ test' = loc(valid, sizes[1] + sizes[2], sizes[1] + sizes[2] + sizes[3])
    /\ pc' = "u_done"
    /\ UNCHANGED <<raw, soxi, valid, sizes, train, dev>>
    /\ UNCHANGED progVars

UnitNext ==
    \/ UnitValidate
    \/ UnitShuffle
    \/ UnitSizes
    \/ UnitTrain
    \/ UnitDev
    \/ UnitTest

UnitSpec == UnitInit /\ [][UnitNext]_vars

\* ------------------------------------------------------------------ claims
Labels(frame) == DOMAIN frame
Rows(frame) == { frame[l] : l \in DOMAIN frame }

\* C1: the train, dev and test slices of create are pairwise disjoint as
\* label sets, their union is every label 0..n-1 of valid, and their sizes
\* add up to n.
C1_SlicesPartitionValid ==
    pc = "u_done" =>
        LET n == Cardinality(Labels(valid))
        IN  /\ Labels(train) \cap Labels(dev) = {}
            /\ Labels(train) \cap Labels(test) = {}
            /\ Labels(dev) \cap Labels(test) = {}
            /\ Labels(train) \cup Labels(dev) \cup Labels(test) = 0..(n - 1)
            /\ Cardinality(Labels(train)) + Cardinality(Labels(dev))
                 + Cardinality(Labels(test)) = n

\* the validity predicate as the claim states it: the transcript is not
\* blank, duration_ms/20 >= len(t) with duration_ms = frames*1000/16000 and
\* no rounding, and the duration is at most MAX_SECS seconds
ClaimedValid(transcript, frames) ==
    /\ strip(transcript) # <<>>
    /\ frames * 1000 >= Len(transcript) * 20 * SAMPLE_RATE
    /\ frames <= MAX_SECS * SAMPLE_RATE

Kept(k) == \E l \in DOMAIN valid : valid[l].wav_filename = raw[k].wav_filename

\* C2: a row of raw is kept in valid if and only if its transcript is not
\* blank, duration_ms/20 >= len(transcript) and the duration is at most ten
\* seconds; the truncation to an integer never changes the outcome.
C2_KeptIffClaimedValid ==
    pc # "u_raw" =>
        \A k \in DOMAIN raw : Kept(k) <=> ClaimedValid(raw[k].transcript, soxi[k])

\* C3: the failure of one fetch or of one transcode never ends the stage it
\* happens in, so main() goes on.
C3_ItemFailureNeverAborts ==
    exc \notin {"URLError", "ContentTooShortError", "SoxError"}

\* C4: once download() has returned in an earlier run, a later run issues no
\* retrieval and leaves the mp3 directory as it found it; once convert() has
\* returned in an earlier run, a later run issues no transcode and leaves the
\* wav directory as it found it.
C4_RerunIsIdempotent ==
    /\ priorFetch => (retrievals = 0 /\ mp3 = mp3AtStart)
    /\ priorConvert => (transcodes = 0 /\ wav = wavAtStart)

\* a later run has gone through download and convert again, both of which
\* had returned before, with fetched and converted files on disk
C4_Witness ==
    /\ run > 1
    /\ priorFetch
    /\ priorConvert
    /\ pc = "create"
    /\ \E f \in Names : mp3[f] = "complete" /\ wav[wav_of(f)] = "complete"

\* C5: with n rows in valid, train is the rows 0..floor(0.8n)-1, dev the next
\* floor(0.1n) rows and test the rest, so the sizes are floor(0.8n),
\* floor(0.1n) and n minus both: 800, 100 and 100 for n = 1000.
C5_SlicesHaveTheComputedSizes ==
    pc = "u_done" =>
        LET n == Cardinality(Labels(valid))
            tr == (8 * n) \div 10
            dv == n \div 10
        IN  /\ Labels(train) = 0..(tr - 1)
            /\ Labels(dev) = tr..(tr + dv - 1)
            /\ Labels(test) = (tr + dv)..(n - 1)
            /\ (n = 1000 =>
                  /\ Cardinality(Labels(train)) = 800
                  /\ Cardinality(Labels(dev)) = 100
                  /\ Cardinality(Labels(test)) = 100)

ScenarioRaw == raw_of(<<RowA, RowB, RowC>>)
IsRowA(r) == r.wav_filename = 0 /\ r.transcript = Hello

C7_AbsentWavIsNotAnError ==
    exc # "FileNotFoundError"

AllStages == <<"Loader", "Fetcher", "Transcoder", "Validator&Splitter", "Writer">>

\* C8: a run of main() in which no collaborator fails raises nothing and,
\* when it has ended, has gone through Loader, Fetcher, Transcoder,
\* Validator&Splitter and Writer in this order (the Writer writing the three
\* manifests).
C8_CleanRunReachesTheWriter ==
    ~extFail =>
        /\ exc = "none"
        /\ pc = "crashed" => stages = AllStages

\* C9: a file is at a row's mp3 path only if that row's download ran to its
\* end.
C9_FetchedFileIsWhole ==
    \A f \in Names : mp3[f] # "absent" => mp3[f] = "complete"

\* C10: no two rows being fetched at the same time write the same local
\* file.
C10_NoTwoWritersOnOneFile ==
    \A i, j \in DOMAIN w :
        (i # j /\ w[i] = "writing" /\ w[j] = "writing")
            => basename(manifest[i].audio_url) # basename(manifest[j].audio_url)

====
